---------------------------- MODULE Spec2Model ----------------------------
(***************************************************************************)
(* Model of src/src/chat-stream-handler.ts: openAiStreamingDataHandler,    *)
(* the decoder that turns a chunked `data: <json>` event stream into       *)
(* onIncomingChunk / onCloseStream calls and a final {content, role}.      *)
(*                                                                         *)
(* Text is a sequence of characters, each a one-character string; the two  *)
(* non-ASCII characters of the model are written "U+00E9" and "U+FFFD",    *)
(* and the backtick "U+0060".                                              *)
(* Bytes are written like the ASCII character they encode; the two bytes   *)
(* of U+00E9 are "C3" and "A9".                                            *)
(***************************************************************************)
EXTENDS Integers, Sequences, FiniteSets, TLC

VARIABLES
    script,         \* the segments the server sends (indices of Catalog)
    pos,            \* number of bytes the byte source no longer holds
    pc,             \* "init", "reading", "closed" or "failed"
    response,       \* line 46: what fetch resolved with, or NoResponse
    decodedData,    \* line 65: text not yet cut into complete frames
    received,       \* ghost: all the text line 73 has appended to decodedData
    content,        \* line 60: content accumulator
    role,           \* line 61: role accumulator
    beforeTimestamp,\* line 43
    trace,          \* ghost: reads issued and callbacks invoked, in order
    result,         \* the returned message (line 105), or NoResult
    error,          \* the error the promise rejects with, or NoError
    thrownAt,       \* ghost: the statement that threw
    cause,          \* ghost: why fetch or read rejected
    textDecoder,    \* line 33: the bytes the module's decoder holds back
    sess,           \* the sessions that run side by side, one record each
    alone,          \* ghost: each of them run alone on the same events
    call,           \* lines 12-14: the arguments of getOpenAiRequestOptions
    request         \* lines 15-29: what it returned, or NoRequest

\* One session
sessionVars == <<script, pos, pc, response, decodedData, received, content, role,
                 beforeTimestamp, trace, result, error, thrownAt, cause>>

\* The module and the sessions that run side by side
moduleVars == <<textDecoder, sess, alone>>

\* A call of getOpenAiRequestOptions
requestVars == <<call, request>>

vars == <<sessionVars, moduleVars, requestVars>>

---------------------------------------------------------------------------
(* Bounds *)

\* Longest script: number of segments the server sends in one session.
MaxFrames == 3

\* Largest chunk, in bytes, that a read delivers short of "all that is left".
MaxChunk == 3

---------------------------------------------------------------------------
(* Characters *)

NL == "\n"
QUOTE == "\""
BSL == "\\"
EACUTE == "U+00E9"
REPLACEMENT == "U+FFFD"
TICK == "U+0060"

\* What the regular expressions' \s, String.prototype.trim and JSON's
\* whitespace agree on, among the characters of the model.
Whitespace == {" ", NL, "\t", "\r"}

DataMarker == <<"d", "a", "t", "a", ":">>
DoneMarker == <<"[", "D", "O", "N", "E", "]">>

Min(S) == CHOOSE x \in S : \A y \in S : x <= y
Max(S) == CHOOSE x \in S : \A y \in S : x >= y

RECURSIVE Flatten(_)
Flatten(ss) == IF ss = <<>> THEN <<>> ELSE Head(ss) \o Flatten(Tail(ss))

\* pre occurs in s at index p
HasPrefixAt(s, p, pre) ==
    /\ p >= 1
    /\ p + Len(pre) - 1 <= Len(s)
    /\ \A k \in 1..Len(pre) : s[p + k - 1] = pre[k]

\* length of the run of whitespace that starts at index p of s
RECURSIVE WsRun(_, _)
WsRun(s, p) ==
    IF p <= Len(s) /\ s[p] \in Whitespace THEN 1 + WsRun(s, p + 1) ELSE 0

---------------------------------------------------------------------------
(* new TextDecoder().decode(value), line 72: a fresh UTF-8 decoder for every *)
(* chunk, not in streaming mode, not fatal.                                 *)

LeadBytes == {"C3"}
ContinuationBytes == {"A9"}

\* A lead byte with its continuation byte is one character; a lead byte that
\* the chunk ends after, or a continuation byte without its lead byte, is
\* replaced by U+FFFD.
DecodeChar(b, i) ==
    IF b[i] \in LeadBytes
    THEN IF i < Len(b) /\ b[i + 1] \in ContinuationBytes THEN EACUTE ELSE REPLACEMENT
    ELSE IF b[i] \in ContinuationBytes
         THEN IF i > 1 /\ b[i - 1] \in LeadBytes THEN "" ELSE REPLACEMENT
         ELSE b[i]

Decode(b) ==
    SelectSeq([i \in 1..Len(b) |-> DecodeChar(b, i)], LAMBDA c : c # "")

\* The server's encoder (the inverse on whole characters).
Utf8Encode(t) ==
    Flatten([i \in 1..Len(t) |-> IF t[i] = EACUTE THEN <<"C3", "A9">> ELSE <<t[i]>>])

---------------------------------------------------------------------------
(* decodedData.split(/(\n){2}/), line 76 *)

\* Where /(\n){2}/ matches at or after index from
MatchesFrom(t, from) ==
    {i \in from..(Len(t) - 1) : t[i] = NL /\ t[i + 1] = NL}

\* The matches are found left to right and do not overlap; the capturing
\* group puts its last capture, "\n", between the pieces.
RECURSIVE SplitFrom(_, _)
SplitFrom(t, start) ==
    IF MatchesFrom(t, start) = {}
    THEN <<SubSeq(t, start, Len(t))>>
    ELSE LET i == Min(MatchesFrom(t, start))
         IN <<SubSeq(t, start, i - 1), <<NL>>>> \o SplitFrom(t, i + 2)

Split(t) == SplitFrom(t, 1)

---------------------------------------------------------------------------
(* lines[i].replace(/(\n)?^data:\s*/, '').trim(), line 80 *)

\* ^ without the m flag: the start of the string only.
AtStart(line, p) == p = 1

\* The leftmost match of /(\n)?^data:\s*/: m is where the match starts and k
\* the length of what (\n)? takes (1 is tried before 0).
DataMatches(line) ==
    {mk \in (1..Len(line) + 1) \X {0, 1} :
        /\ mk[2] = 1 => (mk[1] <= Len(line) /\ line[mk[1]] = NL)
        /\ AtStart(line, mk[1] + mk[2])
        /\ HasPrefixAt(line, mk[1] + mk[2], DataMarker)}

StripData(line) ==
    IF DataMatches(line) = {}
    THEN line
    ELSE LET m == Min({mk[1] : mk \in DataMatches(line)})
             k == Max({mk[2] : mk \in {x \in DataMatches(line) : x[1] = m}})
             e == m + k + Len(DataMarker)
         IN SubSeq(line, 1, m - 1) \o SubSeq(line, e + WsRun(line, e), Len(line))

Trim(s) ==
    LET keep == {i \in 1..Len(s) : s[i] \notin Whitespace}
    IN IF keep = {} THEN <<>> ELSE SubSeq(s, Min(keep), Max(keep))

TrimmedLine(line) == Trim(StripData(line))

---------------------------------------------------------------------------
(* JavaScript values, as JSON.parse produces them and the handler reads them *)

Undefined == [t |-> "undefined"]
Null == [t |-> "null"]
Str(s) == [t |-> "string", s |-> s]
Bool(b) == [t |-> "boolean", b |-> b]
Arr(items) == [t |-> "array", items |-> items]
Obj(keys, vals) == [t |-> "object", keys |-> keys, vals |-> vals]

\* v[key] for a value that is neither undefined nor null: a later duplicate
\* key of an object wins; strings and arrays have none of the names read.
GetProp(v, key) ==
    IF v.t = "object" /\ \E i \in 1..Len(v.keys) : v.keys[i] = key
    THEN v.vals[Max({i \in 1..Len(v.keys) : v.keys[i] = key})]
    ELSE Undefined

\* v[0] for a value that is neither undefined nor null
Index0(v) ==
    CASE v.t = "array" -> IF Len(v.items) >= 1 THEN v.items[1] ELSE Undefined
      [] v.t = "string" -> IF Len(v.s) >= 1 THEN Str(<<v.s[1]>>) ELSE Undefined
      [] OTHER -> GetProp(v, <<"0">>)

IsNullish(v) == v.t \in {"undefined", "null"}

\* String(v), as `role += roleChunk` applies it on line 92
RECURSIVE JSToString(_)
JSToString(v) ==
    CASE v.t = "string" -> v.s
      [] v.t = "undefined" -> <<"u", "n", "d", "e", "f", "i", "n", "e", "d">>
      [] v.t = "null" -> <<"n", "u", "l", "l">>
      [] v.t = "boolean" ->
           IF v.b THEN <<"t", "r", "u", "e">> ELSE <<"f", "a", "l", "s", "e">>
      [] v.t = "object" ->
           <<"[", "o", "b", "j", "e", "c", "t", " ", "O", "b", "j", "e", "c", "t", "]">>
      [] v.t = "array" ->
           Flatten([i \in 1..Len(v.items) |->
               (IF i > 1 THEN <<",">> ELSE <<>>)
               \o (IF IsNullish(v.items[i]) THEN <<>> ELSE JSToString(v.items[i]))])

---------------------------------------------------------------------------
(* JSON.parse(trimmedLine), line 83, for the JSON that has objects, arrays,  *)
(* strings, true, false and null. A parse result is [ok, v, n]: n is the     *)
(* index after the value.                                                    *)

ParseFail == [ok |-> FALSE, v |-> Undefined, n |-> 0]
ParseOk(v, n) == [ok |-> TRUE, v |-> v, n |-> n]

SkipWs(s, i) == i + WsRun(s, i)

NullLiteral == <<"n", "u", "l", "l">>
TrueLiteral == <<"t", "r", "u", "e">>
FalseLiteral == <<"f", "a", "l", "s", "e">>

\* The characters of a string literal whose opening quote is before index i;
\* a raw control character or the end of the text inside it is an error.
RECURSIVE ScanString(_, _, _)
ScanString(s, i, acc) ==
    IF i > Len(s) THEN ParseFail
    ELSE IF s[i] = QUOTE THEN ParseOk(Str(acc), i + 1)
    ELSE IF s[i] \in {NL, "\t", "\r"} THEN ParseFail
    ELSE IF s[i] = BSL
         THEN IF i + 1 > Len(s) THEN ParseFail
              ELSE IF s[i + 1] \in {QUOTE, BSL, "/"}
                   THEN ScanString(s, i + 2, Append(acc, s[i + 1]))
              ELSE IF s[i + 1] = "n" THEN ScanString(s, i + 2, Append(acc, NL))
              ELSE IF s[i + 1] = "t" THEN ScanString(s, i + 2, Append(acc, "\t"))
              ELSE IF s[i + 1] = "r" THEN ScanString(s, i + 2, Append(acc, "\r"))
              ELSE ParseFail
    ELSE ScanString(s, i + 1, Append(acc, s[i]))

RECURSIVE ParseValue(_, _)
RECURSIVE ParseMembers(_, _, _, _)
RECURSIVE ParseElements(_, _, _)

\* The members of an object from index i (after "{" or ","), up to its "}".
ParseMembers(s, i, keys, vals) ==
    LET k == SkipWs(s, i)
    IN IF k > Len(s) \/ s[k] # QUOTE THEN ParseFail
       ELSE LET key == ScanString(s, k + 1, <<>>)
                c == SkipWs(s, key.n)
            IN IF ~key.ok \/ c > Len(s) \/ s[c] # ":" THEN ParseFail
               ELSE LET val == ParseValue(s, c + 1)
                        e == SkipWs(s, val.n)
                    IN IF ~val.ok \/ e > Len(s) THEN ParseFail
                       ELSE IF s[e] = ","
                            THEN ParseMembers(s, e + 1, Append(keys, key.v.s),
                                              Append(vals, val.v))
                       ELSE IF s[e] = "}"
                            THEN ParseOk(Obj(Append(keys, key.v.s), Append(vals, val.v)),
                                         e + 1)
                       ELSE ParseFail

\* The elements of an array from index i (after "[" or ","), up to its "]".
ParseElements(s, i, items) ==
    LET val == ParseValue(s, i)
        e == SkipWs(s, val.n)
    IN IF ~val.ok \/ e > Len(s) THEN ParseFail
       ELSE IF s[e] = "," THEN ParseElements(s, e + 1, Append(items, val.v))
       ELSE IF s[e] = "]" THEN ParseOk(Arr(Append(items, val.v)), e + 1)
       ELSE ParseFail

ParseValue(s, i) ==
    LET j == SkipWs(s, i)
    IN IF j > Len(s) THEN ParseFail
       ELSE IF s[j] = "{"
            THEN LET k == SkipWs(s, j + 1)
                 IN IF k <= Len(s) /\ s[k] = "}" THEN ParseOk(Obj(<<>>, <<>>), k + 1)
                    ELSE ParseMembers(s, j + 1, <<>>, <<>>)
       ELSE IF s[j] = "["
            THEN LET k == SkipWs(s, j + 1)
                 IN IF k <= Len(s) /\ s[k] = "]" THEN ParseOk(Arr(<<>>), k + 1)
                    ELSE ParseElements(s, j + 1, <<>>)
       ELSE IF s[j] = QUOTE THEN ScanString(s, j + 1, <<>>)
       ELSE IF HasPrefixAt(s, j, NullLiteral) THEN ParseOk(Null, j + Len(NullLiteral))
       ELSE IF HasPrefixAt(s, j, TrueLiteral)
            THEN ParseOk(Bool(TRUE), j + Len(TrueLiteral))
       ELSE IF HasPrefixAt(s, j, FalseLiteral)
            THEN ParseOk(Bool(FALSE), j + Len(FalseLiteral))
       ELSE ParseFail

\* JSON.parse: one value and nothing but whitespace after it, or a SyntaxError.
JSONParse(s) ==
    LET r == ParseValue(s, 1)
    IN IF r.ok /\ SkipWs(s, r.n) > Len(s) THEN r ELSE ParseFail

---------------------------------------------------------------------------
(* Lines 82-95: one element of `lines` *)

K_choices == <<"c", "h", "o", "i", "c", "e", "s">>
K_delta == <<"d", "e", "l", "t", "a">>
K_content == <<"c", "o", "n", "t", "e", "n", "t">>
K_role == <<"r", "o", "l", "e">>

\* Faulty variant of line 82: the terminal marker is not recognised.
ShouldParseIgnoresDone(trimmedLine) == trimmedLine # <<>>

\* line 82
ShouldParse(trimmedLine) == trimmedLine # <<>> /\ trimmedLine # DoneMarker

\* Faulty variant of lines 86 and 89: the `?? ''` is missing.
OrEmptyMissing(v) == v

\* `x ?? ''`, lines 86 and 89
OrEmpty(v) == IF IsNullish(v) THEN Str(<<>>) ELSE v

\* Faulty variant of line 87: the pattern has no ^ and takes the first
\* backtick of the string.
NormalizeTickUnanchored(c) ==
    IF \E i \in 1..Len(c) : c[i] = TICK
    THEN LET i == Min({k \in 1..Len(c) : c[k] = TICK})
         IN SubSeq(c, 1, i) \o SubSeq(c, i + 1 + WsRun(c, i + 1), Len(c))
    ELSE c

\* .replace(/^`\s*/, '`'), line 87
NormalizeTick(c) ==
    IF Len(c) >= 1 /\ c[1] = TICK
    THEN <<TICK>> \o SubSeq(c, 2 + WsRun(c, 2), Len(c))
    ELSE c

\* Faulty variant of lines 85-89: every access is optional (`?.`), so that a
\* chunk of another shape gives two empty deltas.
ExtractDeltaLenient(chunk) ==
    LET choices == IF IsNullish(chunk) THEN Undefined ELSE GetProp(chunk, K_choices)
        first == IF IsNullish(choices) THEN Undefined ELSE Index0(choices)
        delta == IF IsNullish(first) THEN Undefined ELSE GetProp(first, K_delta)
        rawContent == IF IsNullish(delta) THEN Str(<<>>)
                      ELSE OrEmpty(GetProp(delta, K_content))
        rawRole == IF IsNullish(delta) THEN Str(<<>>)
                   ELSE OrEmpty(GetProp(delta, K_role))
    IN IF rawContent.t # "string"
       THEN [threw |-> TRUE, contentChunk |-> <<>>, roleChunk |-> Undefined]
       ELSE [threw |-> FALSE, contentChunk |-> NormalizeTick(rawContent.s),
             roleChunk |-> rawRole]

\* Lines 85-89 on the parsed chunk: reading a property of undefined or null,
\* or calling .replace on a value that is no string, throws a TypeError.
ExtractDelta(chunk) ==
    LET choices == GetProp(chunk, K_choices)
        first == Index0(choices)
        delta == GetProp(first, K_delta)
        rawContent == OrEmpty(GetProp(delta, K_content))
        rawRole == OrEmpty(GetProp(delta, K_role))
    IN IF IsNullish(chunk) \/ IsNullish(choices) \/ IsNullish(first) \/ IsNullish(delta)
          \/ rawContent.t # "string"
       THEN [threw |-> TRUE, contentChunk |-> <<>>, roleChunk |-> Undefined]
       ELSE [threw |-> FALSE, contentChunk |-> NormalizeTick(rawContent.s),
             roleChunk |-> rawRole]

\* Events of the trace
ReadEv == [e |-> "read", c |-> <<>>, r |-> Undefined, ts |-> 0]
ChunkEv(c, r) == [e |-> "chunk", c |-> c, r |-> r, ts |-> 0]
CloseEv(ts) == [e |-> "close", c |-> <<>>, r |-> Undefined, ts |-> ts]

\* Faulty variant of lines 91-92: `=` in place of `+=`.
DeliverOverwrites(st, d) ==
    [st EXCEPT !.content = d.contentChunk,
               !.role = JSToString(d.roleChunk),
               !.trace = Append(st.trace, ChunkEv(d.contentChunk, d.roleChunk))]

\* lines 91-94: accumulate, then call onIncomingChunk
Deliver(st, d) ==
    [st EXCEPT !.content = st.content \o d.contentChunk,
               !.role = st.role \o JSToString(d.roleChunk),
               !.trace = Append(st.trace, ChunkEv(d.contentChunk, d.roleChunk))]

\* Faulty variant of lines 80-95: a payload that does not parse is skipped.
ProcessLineSkipsBadPayload(st, line) ==
    LET trimmedLine == TrimmedLine(line)
    IN IF ~ShouldParse(trimmedLine) \/ ~JSONParse(trimmedLine).ok THEN st
       ELSE LET d == ExtractDelta(JSONParse(trimmedLine).v)
            IN IF d.threw THEN [st EXCEPT !.threw = "TypeError"]
               ELSE Deliver(st, d)

\* The body of the for loop, lines 80-95. st is the session's state:
\* [decodedData, content, role, trace, threw], threw being the name of the
\* error thrown ("" when none).
ProcessLine(st, line) ==
    LET trimmedLine == TrimmedLine(line)
    IN IF ~ShouldParse(trimmedLine) THEN st
       ELSE LET parsed == JSONParse(trimmedLine)
            IN IF ~parsed.ok THEN [st EXCEPT !.threw = "SyntaxError"]
               ELSE LET d == ExtractDelta(parsed.v)
                    IN IF d.threw THEN [st EXCEPT !.threw = "TypeError"]
                       ELSE Deliver(st, d)

\* Faulty variant of line 79: the loop runs over the last element too.
LastCompleteIsLast(numLines) == numLines

\* `i < numLines - 1`, line 79: the last element of `lines` is not a frame.
LastComplete(numLines) == numLines - 1

\* for (let i = 0; i < numLines - 1; i++), line 79; a throw leaves the loop
RECURSIVE ProcessLines(_, _, _)
ProcessLines(st, lines, i) ==
    IF i > LastComplete(Len(lines)) \/ st.threw # "" THEN st
    ELSE ProcessLines(ProcessLine(st, lines[i]), lines, i + 1)

\* Faulty variant of line 99: the buffer is not cut.
RemainderIsData(data, lines) == data

\* `decodedData = lines[numLines - 1]`, line 99
Remainder(data, lines) == lines[Len(lines)]

\* Lines 73-100 for the text of one chunk
ProcessDecoded(st, chunk) ==
    LET data == st.decodedData \o chunk
        lines == Split(data)
        after == ProcessLines([st EXCEPT !.decodedData = data], lines, 1)
    IN IF after.threw # "" THEN after
       ELSE [after EXCEPT !.decodedData = Remainder(data, lines)]

\* Lines 71-100 for one chunk of bytes
ProcessChunk(st, value) == ProcessDecoded(st, Decode(value))

---------------------------------------------------------------------------
(* The server: what it sends, segment by segment *)

\* JSON.stringify of a string, for the characters of the model
EncodeString(t) ==
    <<QUOTE>>
    \o Flatten([i \in 1..Len(t) |->
          IF t[i] \in {QUOTE, BSL} THEN <<BSL, t[i]>>
          ELSE IF t[i] = NL THEN <<BSL, "n">>
          ELSE <<t[i]>>])
    \o <<QUOTE>>

Member(key, val) == EncodeString(key) \o <<":">> \o val

\* {"choices":[{"delta":{...}}]} with the fields the segment has
DeltaJson(seg) ==
    LET c == IF seg.hasContent THEN <<Member(K_content, EncodeString(seg.c))>> ELSE <<>>
        r == IF seg.hasRole THEN <<Member(K_role, EncodeString(seg.r))>> ELSE <<>>
        fields == c \o r
        inner == Flatten([i \in 1..Len(fields) |->
                     (IF i > 1 THEN <<",">> ELSE <<>>) \o fields[i]])
    IN <<"{">> \o Member(K_choices,
                    <<"[", "{">> \o Member(K_delta, <<"{">> \o inner \o <<"}">>)
                    \o <<"}", "]">>)
       \o <<"}">>

\* A segment the server may send. A script holds any number of the common
\* segments (a content delta, the terminal marker) and at most one of the
\* others (a role delta, a delta with a backtick and a two-byte character, a
\* delta with no field, a delta with two empty fields, a truncated payload,
\* a delta frame that ends after one newline, a truncated payload that ends
\* with no newline, a newline on its own, deltas with a backtick before
\* whitespace, after a letter and before a letter, and the keep-alive
\* frames: an empty one, one of whitespace, a bare `data:`, and the payloads
\* that are JSON of another shape: an error object, no choice, a choice
\* without a delta, a choice whose delta is null).
DeltaSeg(common, hasContent, c, hasRole, r) ==
    [kind |-> "delta", common |-> common,
     hasContent |-> hasContent, c |-> c, hasRole |-> hasRole, r |-> r]
OtherSeg(kind) ==
    [kind |-> kind, common |-> FALSE,
     hasContent |-> FALSE, c |-> <<>>, hasRole |-> FALSE, r |-> <<>>]

DoneSeg == [OtherSeg("done") EXCEPT !.common = TRUE]

Catalog ==
    << DeltaSeg(TRUE, TRUE, <<"H", "i">>, FALSE, <<>>),
       DoneSeg,
       DeltaSeg(FALSE, FALSE, <<>>, TRUE, <<"u", "s", "e", "r">>),
       DeltaSeg(FALSE, TRUE, <<TICK, " ", EACUTE>>, FALSE, <<>>),
       DeltaSeg(FALSE, FALSE, <<>>, FALSE, <<>>),
       DeltaSeg(FALSE, TRUE, <<>>, TRUE, <<>>),
       OtherSeg("bad"),
       [DeltaSeg(FALSE, TRUE, <<"X">>, FALSE, <<>>) EXCEPT !.kind = "tail"],
       OtherSeg("badtail"),
       OtherSeg("nl"),
       DeltaSeg(FALSE, TRUE, <<TICK, " ", NL, "x">>, TRUE, <<TICK, " ", "r">>),
       DeltaSeg(FALSE, TRUE, <<"a", TICK, " ", "b">>, FALSE, <<>>),
       DeltaSeg(FALSE, TRUE, <<TICK, "x", " ">>, FALSE, <<>>),
       OtherSeg("empty"),
       OtherSeg("blank"),
       OtherSeg("bare"),
       OtherSeg("nochoices"),
       OtherSeg("emptychoices"),
       OtherSeg("nodelta"),
       OtherSeg("nulldelta") >>

\* The text of a segment: a frame is `data: <payload>` and a blank line.
SegText(seg) ==
    CASE seg.kind = "delta" -> DataMarker \o <<" ">> \o DeltaJson(seg) \o <<NL, NL>>
      [] seg.kind = "done" -> DataMarker \o <<" ">> \o DoneMarker \o <<NL, NL>>
      [] seg.kind = "bad" ->
           DataMarker \o <<" ", "{">> \o EncodeString(K_choices) \o <<NL, NL>>
      [] seg.kind = "tail" -> DataMarker \o <<" ">> \o DeltaJson(seg) \o <<NL>>
      [] seg.kind = "badtail" ->
           DataMarker \o <<" ", "{">> \o EncodeString(K_choices)
      [] seg.kind = "nl" -> <<NL>>
      [] seg.kind = "empty" -> <<NL, NL>>
      [] seg.kind = "blank" -> <<" ", "\t", NL, NL>>
      [] seg.kind = "bare" -> DataMarker \o <<NL, NL>>
      [] seg.kind = "nochoices" ->
           DataMarker \o <<" ", "{">>
           \o Member(<<"e", "r", "r", "o", "r">>,
                      <<"{">> \o Member(<<"m", "e", "s", "s", "a", "g", "e">>,
                                        EncodeString(<<"n", "o">>)) \o <<"}">>)
           \o <<"}", NL, NL>>
      [] seg.kind = "emptychoices" ->
           DataMarker \o <<" ", "{">> \o Member(K_choices, <<"[", "]">>)
           \o <<"}", NL, NL>>
      [] seg.kind = "nodelta" ->
           DataMarker \o <<" ", "{">>
           \o Member(K_choices,
                      <<"[", "{">> \o Member(<<"i", "d">>, EncodeString(<<"0">>))
                      \o <<"}", "]">>)
           \o <<"}", NL, NL>>
      [] seg.kind = "nulldelta" ->
           DataMarker \o <<" ", "{">>
           \o Member(K_choices, <<"[", "{">> \o Member(K_delta, NullLiteral)
                                 \o <<"}", "]">>)
           \o <<"}", NL, NL>>

SegBytes == [i \in 1..Len(Catalog) |-> Utf8Encode(SegText(Catalog[i]))]

RECURSIVE SeqsUpTo(_, _)
SeqsUpTo(S, n) ==
    IF n = 0 THEN {<<>>}
    ELSE LET shorter == SeqsUpTo(S, n - 1)
         IN shorter \cup {Append(q, x) : q \in shorter, x \in S}

\* The server sends the terminal marker at most once, and text that no
\* blank line follows is the last it sends.
Scripts ==
    {sc \in SeqsUpTo(1..Len(Catalog), MaxFrames) :
        /\ Cardinality({i \in 1..Len(sc) : ~Catalog[sc[i]].common}) <= 1
        /\ Cardinality({i \in 1..Len(sc) : Catalog[sc[i]].kind = "done"}) <= 1
        /\ \A i \in 1..Len(sc) :
            Catalog[sc[i]].kind \in {"tail", "badtail"} => i = Len(sc)}

ScriptBytes == [sc \in Scripts |-> Flatten([i \in 1..Len(sc) |-> SegBytes[sc[i]]])]

\* The bytes the byte source delivers in this session, in order
Input == ScriptBytes[script]

---------------------------------------------------------------------------
(* The transport *)

Statuses == {200, 404, 500}
StatusText(status) ==
    CASE status = 200 -> "OK"
      [] status = 404 -> "Not Found"
      [] OTHER -> "Internal Server Error"
Responses == [status : Statuses, hasBody : BOOLEAN]
NoResponse == [status |-> 0, hasBody |-> FALSE]

\* response.ok
Ok(status) == status >= 200 /\ status <= 299

\* Date.now(), line 43
NowValues == {1000}

NoError == [name |-> "none", msg |-> "", status |-> 0, statusText |-> ""]
Err(name, msg) == [name |-> name, msg |-> msg, status |-> 0, statusText |-> ""]

\* Faulty variant of lines 49-58: response.ok is not looked at.
ResponseErrorIgnoresStatus(resp) ==
    IF ~resp.hasBody
    THEN Err("Error", "No body included in POST response object")
    ELSE NoError

\* Faulty variant of lines 49-58: the body is looked at before the status.
ResponseErrorBodyFirst(resp) ==
    IF ~resp.hasBody
    THEN Err("Error", "No body included in POST response object")
    ELSE IF ~Ok(resp.status)
         THEN [name |-> "Error", msg |-> "Network response was not ok: ",
               status |-> resp.status, statusText |-> StatusText(resp.status)]
         ELSE NoError

\* lines 49-58: the error the response is refused with, or NoError
ResponseError(resp) ==
    IF ~Ok(resp.status)
    THEN [name |-> "Error", msg |-> "Network response was not ok: ",
          status |-> resp.status, statusText |-> StatusText(resp.status)]
    ELSE IF ~resp.hasBody
         THEN Err("Error", "No body included in POST response object")
         ELSE NoError

\* What fetch() and reader.read() reject with: an AbortError when the
\* caller's AbortSignal fired, a TypeError when the network failed.
Rejections == {"abort", "network"}
Rejection(why) ==
    IF why = "abort"
    THEN Err("AbortError", "The user aborted a request.")
    ELSE Err("TypeError", "network error")

\* Faulty variant of lines 46 and 68: the rejection is caught and a plain
\* Error with its message is thrown.
PropagateAsPlainError(e) == Err("Error", e.msg)

\* An awaited promise that rejects, lines 46 and 68: the async function
\* rejects with the same error.
Propagate(e) == e

\* What the handler throws itself, line 83 and lines 86-89
Thrown(name) ==
    IF name = "SyntaxError"
    THEN Err("SyntaxError", "Unexpected token in JSON")
    ELSE Err("TypeError", "Cannot read properties of undefined")

NoResult == [returned |-> FALSE, content |-> <<>>, role |-> <<>>]
Message(c, r) == [returned |-> TRUE, content |-> c, role |-> r]

\* Consecutive reads with no callback between them are recorded once.
AddRead(tr) ==
    IF tr # <<>> /\ tr[Len(tr)].e = "read" THEN tr ELSE Append(tr, ReadEv)

\* getOpenAiRequestOptions has not been called, and has not returned.
NoCall == [options |-> Undefined, messages |-> Undefined, signal |-> Undefined]
NoRequest ==
    [headers |-> [ContentType |-> "", Authorization |-> <<>>],
     method |-> "", body |-> <<>>, signal |-> Undefined]

---------------------------------------------------------------------------
(* The session *)

Init ==
    /\ script \in Scripts
    /\ pos = 0
    /\ pc = "init"
    /\ response = NoResponse
    /\ decodedData = <<>>
    /\ received = <<>>
    /\ content = <<>>
    /\ role = <<>>
    /\ beforeTimestamp = 0
    /\ trace = <<>>
    /\ result = NoResult
    /\ error = NoError
    /\ thrownAt = "none"
    /\ cause = "none"
    /\ textDecoder = <<>>
    /\ sess = <<>>
    /\ alone = <<>>
    /\ call = NoCall
    /\ request = NoRequest

\* The function has thrown: the promise rejects with e and the locals of
\* lines 60-65 are gone.
Fail(e, where) ==
    /\ pc' = "failed"
    /\ error' = e
    /\ thrownAt' = where
    /\ decodedData' = <<>>
    /\ received' = <<>>
    /\ content' = <<>>
    /\ role' = <<>>

\* Lines 43-65: fetch resolves with a response.
Fetch ==
    /\ pc = "init"
    /\ \E resp \in Responses, now \in NowValues :
        /\ beforeTimestamp' = now
        /\ response' = resp
        /\ IF ResponseError(resp) # NoError
           THEN Fail(ResponseError(resp), IF ~Ok(resp.status) THEN "status" ELSE "body")
           ELSE pc' = "reading"
                /\ UNCHANGED <<error, thrownAt, decodedData, received, content, role>>
    /\ UNCHANGED <<script, pos, trace, result, cause, moduleVars, requestVars>>

\* Lines 43-46: fetch rejects.
FetchRejects ==
    /\ pc = "init"
    /\ \E why \in Rejections, now \in NowValues :
        /\ beforeTimestamp' = now
        /\ cause' = why
        /\ Fail(Propagate(Rejection(why)), "fetch")
    /\ UNCHANGED <<script, pos, response, trace, result, moduleVars, requestVars>>

\* The sizes of the chunk a read may deliver: up to MaxChunk bytes (an empty
\* chunk at any time), or the whole input as the first chunk.
ChunkSizesAt(p, input) == (0..MaxChunk) \cup (IF p = 0 THEN {Len(input)} ELSE {})

ChunkSizes == ChunkSizesAt(pos, Input)

\* Lines 67-100: reader.read() resolves with a chunk.
ReadChunk ==
    /\ pc = "reading"
    /\ \E n \in ChunkSizes :
        /\ pos + n <= Len(Input)
        /\ LET value == SubSeq(Input, pos + 1, pos + n)
               st == ProcessChunk([decodedData |-> decodedData, content |-> content,
                                   role |-> role, trace |-> AddRead(trace),
                                   threw |-> ""], value)
           IN /\ pos' = pos + n
              /\ trace' = st.trace
              /\ IF st.threw # ""
                 THEN Fail(Thrown(st.threw),
                           IF st.threw = "SyntaxError" THEN "parse" ELSE "shape")
                 ELSE /\ decodedData' = st.decodedData
                      /\ received' = received \o Decode(value)
                      /\ content' = st.content
                      /\ role' = st.role
                      /\ UNCHANGED <<pc, error, thrownAt>>
    /\ UNCHANGED <<script, response, beforeTimestamp, result, cause, moduleVars, requestVars>>

\* Faulty variant of line 103: onCloseStream is not called.
AfterLoopWithoutClose(tr, ts) == tr

\* Lines 103-105, after the loop
AfterLoop(tr, ts) == Append(tr, CloseEv(ts))

\* Faulty variant of line 67: the loop does not look at `done`.
LoopGoesOnAlways(done) == TRUE

\* `while (!done)`, line 67, with the `done` that line 69 has set
LoopGoesOn(done) == ~done

\* Lines 67-70 and 103-105: reader.read() resolves with done and no value,
\* the loop ends, the function returns and its locals are gone. (A loop that
\* went on would read again, and an exhausted source answers done again.)
ReadDone ==
    /\ pc = "reading"
    /\ pos = Len(Input)
    /\ IF LoopGoesOn(TRUE)
       THEN /\ trace' = AddRead(trace)
            /\ UNCHANGED <<pc, result, decodedData, received, content, role>>
       ELSE /\ trace' = AfterLoop(AddRead(trace), beforeTimestamp)
            /\ result' = Message(content, role)
            /\ pc' = "closed"
            /\ decodedData' = <<>>
            /\ received' = <<>>
            /\ content' = <<>>
            /\ role' = <<>>
    /\ UNCHANGED <<script, pos, response, beforeTimestamp, error, thrownAt, cause,
                   moduleVars, requestVars>>

\* Line 68: reader.read() rejects. The errored source has dropped the bytes
\* it had not delivered.
ReadRejects ==
    /\ pc = "reading"
    /\ \E why \in Rejections :
        /\ cause' = why
        /\ Fail(Propagate(Rejection(why)), "read")
    /\ trace' = AddRead(trace)
    /\ pos' = Len(Input)
    /\ UNCHANGED <<script, response, beforeTimestamp, result, moduleVars, requestVars>>

Next == Fetch \/ FetchRejects \/ ReadChunk \/ ReadDone \/ ReadRejects

Spec == Init /\ [][Next]_vars

\* The byte source moves on: a read delivers bytes, or fails.
Delivers == pc = "reading" /\ \E q \in (pos + 1)..Len(Input) : pos' = q

\* The byte source of a response delivers what the server sent and then
\* reports exhaustion, unless it fails: a pending reader.read() (line 68)
\* settles, and the async function is resumed when it does.
FairSpec == Spec /\ WF_pos(Delivers) /\ WF_vars(ReadDone)

---------------------------------------------------------------------------
(* Two sessions side by side. The host runs the async function twice; the   *)
(* steps of the two calls interleave at their awaits (lines 46 and 68).     *)
(* What the two calls could share is what the module holds: the decoder of  *)
(* line 33. Everything of lines 43-65 is local to a call.                   *)

Sessions == {1, 2}

\* What the two servers send: a delta with a two-byte character, a truncated
\* payload, a delta and the terminal marker.
ConcurrentScripts == {<<4>>, <<7>>, <<1, 2>>}

\* Date.now() of line 43 in session s
StartTime(s) == 1000 * s

\* Faulty variant of line 72: the chunk is decoded by the module's decoder of
\* line 33 in streaming mode, which holds back the lead byte a chunk ends with.
SessionDecodeShared(shared, value) ==
    LET b == shared \o value
        hold == IF b # <<>> /\ b[Len(b)] \in LeadBytes THEN 1 ELSE 0
    IN [text |-> Decode(SubSeq(b, 1, Len(b) - hold)),
        shared |-> SubSeq(b, Len(b) - hold + 1, Len(b))]

\* line 72 beside line 33: the chunk is decoded by a decoder made for it; the
\* module's decoder is neither used nor changed.
SessionDecode(shared, value) == [text |-> Decode(value), shared |-> shared]

\* The locals of one call, lines 43-65, and what came of it
NewSession(sc) ==
    [script |-> sc, pos |-> 0, pc |-> "init", beforeTimestamp |-> 0,
     decodedData |-> <<>>, content |-> <<>>, role |-> <<>>,
     trace |-> <<>>, result |-> NoResult, error |-> NoError]

\* The call has thrown, as Fail
Failed(rec, e) ==
    [rec EXCEPT !.pc = "failed", !.error = e,
                !.decodedData = <<>>, !.content = <<>>, !.role = <<>>]

\* Lines 43-65, as Fetch
Fetched(rec, resp, now) ==
    LET r == [rec EXCEPT !.beforeTimestamp = now]
    IN IF ResponseError(resp) # NoError
       THEN Failed(r, ResponseError(resp))
       ELSE [r EXCEPT !.pc = "reading"]

\* Line 46 rejects, as FetchRejects
FetchRejected(rec, why, now) ==
    Failed([rec EXCEPT !.beforeTimestamp = now], Propagate(Rejection(why)))

\* Lines 67-100 for a chunk of n bytes decoded to text, as ReadChunk
Chunked(rec, n, text) ==
    LET st == ProcessDecoded([decodedData |-> rec.decodedData,
                              content |-> rec.content, role |-> rec.role,
                              trace |-> AddRead(rec.trace), threw |-> ""], text)
        r == [rec EXCEPT !.pos = @ + n, !.trace = st.trace]
    IN IF st.threw # ""
       THEN Failed(r, Thrown(st.threw))
       ELSE [r EXCEPT !.decodedData = st.decodedData,
                      !.content = st.content, !.role = st.role]

\* Lines 67-70 and 103-105, as ReadDone
Closed(rec) ==
    [rec EXCEPT !.pc = "closed",
                !.trace = AfterLoop(AddRead(rec.trace), rec.beforeTimestamp),
                !.result = Message(rec.content, rec.role),
                !.decodedData = <<>>, !.content = <<>>, !.role = <<>>]

\* Line 68 rejects, as ReadRejects
ReadRejected(rec, why) ==
    Failed([rec EXCEPT !.trace = AddRead(@), !.pos = Len(ScriptBytes[rec.script])],
           Propagate(Rejection(why)))

\* openAiStreamingDataHandler has not been called through sessionVars.
NoSession ==
    /\ script = <<>>
    /\ pos = 0
    /\ pc = "idle"
    /\ response = NoResponse
    /\ decodedData = <<>>
    /\ received = <<>>
    /\ content = <<>>
    /\ role = <<>>
    /\ beforeTimestamp = 0
    /\ trace = <<>>
    /\ result = NoResult
    /\ error = NoError
    /\ thrownAt = "none"
    /\ cause = "none"

InitTwo ==
    /\ NoSession
    /\ call = NoCall
    /\ request = NoRequest
    /\ textDecoder = <<>>
    /\ \E scs \in [Sessions -> ConcurrentScripts] :
        /\ sess = [s \in Sessions |-> NewSession(scs[s])]
        /\ alone = [s \in Sessions |->
                       [session |-> NewSession(scs[s]), textDecoder |-> <<>>]]

\* In each step of session s, the same session alone takes the same step
\* with a module of its own.
FetchIn(s) ==
    /\ sess[s].pc = "init"
    /\ \E resp \in Responses :
        /\ sess' = [sess EXCEPT ![s] = Fetched(@, resp, StartTime(s))]
        /\ alone' = [alone EXCEPT ![s].session = Fetched(@, resp, StartTime(s))]
    /\ UNCHANGED <<sessionVars, textDecoder, requestVars>>

FetchRejectsIn(s) ==
    /\ sess[s].pc = "init"
    /\ \E why \in Rejections :
        /\ sess' = [sess EXCEPT ![s] = FetchRejected(@, why, StartTime(s))]
        /\ alone' = [alone EXCEPT
                        ![s].session = FetchRejected(@, why, StartTime(s))]
    /\ UNCHANGED <<sessionVars, textDecoder, requestVars>>

ReadChunkIn(s) ==
    /\ sess[s].pc = "reading"
    /\ \E n \in ChunkSizesAt(sess[s].pos, ScriptBytes[sess[s].script]) :
        /\ sess[s].pos + n <= Len(ScriptBytes[sess[s].script])
        /\ LET value == SubSeq(ScriptBytes[sess[s].script],
                               sess[s].pos + 1, sess[s].pos + n)
               here == SessionDecode(textDecoder, value)
               there == SessionDecode(alone[s].textDecoder, value)
               before == [w \in {"shared", "alone"} |->
                            IF w = "shared" THEN sess[s] ELSE alone[s].session]
               text == [w \in {"shared", "alone"} |->
                          IF w = "shared" THEN here.text ELSE there.text]
           IN \E after \in {[w \in {"shared", "alone"} |->
                                Chunked(before[w], n, text[w])]} :
                /\ sess' = [sess EXCEPT ![s] = after["shared"]]
                /\ textDecoder' = here.shared
                /\ alone' = [alone EXCEPT
                                ![s].session = after["alone"],
                                ![s].textDecoder = there.shared]
    /\ UNCHANGED <<sessionVars, requestVars>>

ReadDoneIn(s) ==
    /\ sess[s].pc = "reading"
    /\ sess[s].pos = Len(ScriptBytes[sess[s].script])
    /\ sess' = [sess EXCEPT ![s] = Closed(@)]
    /\ alone' = [alone EXCEPT ![s].session = Closed(@)]
    /\ UNCHANGED <<sessionVars, textDecoder, requestVars>>

ReadRejectsIn(s) ==
    /\ sess[s].pc = "reading"
    /\ \E why \in Rejections :
        /\ sess' = [sess EXCEPT ![s] = ReadRejected(@, why)]
        /\ alone' = [alone EXCEPT ![s].session = ReadRejected(@, why)]
    /\ UNCHANGED <<sessionVars, textDecoder, requestVars>>

NextTwo ==
    \E s \in Sessions :
        FetchIn(s) \/ FetchRejectsIn(s) \/ ReadChunkIn(s) \/ ReadDoneIn(s)
            \/ ReadRejectsIn(s)

TwoSessions == InitTwo /\ [][NextTwo]_vars

---------------------------------------------------------------------------
(* getOpenAiRequestOptions, lines 11-29 *)

K_apiKey == <<"a", "p", "i", "K", "e", "y">>
K_model == <<"m", "o", "d", "e", "l">>
K_messages == <<"m", "e", "s", "s", "a", "g", "e", "s">>
K_stream == <<"s", "t", "r", "e", "a", "m">>
K_user == <<"u", "s", "e", "r">>

\* A member of an object literal or of a spread: a key the object has keeps
\* its place and takes the new value, another key comes last.
SetProp(o, key, val) ==
    IF \E i \in 1..Len(o.keys) : o.keys[i] = key
    THEN Obj(o.keys, [i \in 1..Len(o.keys) |->
                         IF o.keys[i] = key THEN val ELSE o.vals[i]])
    ELSE Obj(Append(o.keys, key), Append(o.vals, val))

\* { ...o, ...src }: the members of src from the i-th on, in their order
RECURSIVE Spread(_, _, _)
Spread(o, src, i) ==
    IF i > Len(src.keys) THEN o
    ELSE Spread(SetProp(o, src.keys[i], src.vals[i]), src, i + 1)

\* { apiKey, model, ...restOfApiParams }, line 12: the other members
RestOf(options) ==
    LET idx == SelectSeq([i \in 1..Len(options.keys) |-> i],
                         LAMBDA i : options.keys[i] \notin {K_apiKey, K_model})
    IN Obj([k \in 1..Len(idx) |-> options.keys[idx[k]]],
           [k \in 1..Len(idx) |-> options.vals[idx[k]]])

Join(parts, sep) ==
    Flatten([i \in 1..Len(parts) |-> (IF i > 1 THEN sep ELSE <<>>) \o parts[i]])

\* JSON.stringify, line 21: a member whose value is undefined is left out,
\* an element that is undefined is written null.
RECURSIVE Stringify(_)
Stringify(v) ==
    CASE v.t = "string" -> EncodeString(v.s)
      [] v.t = "boolean" -> JSToString(v)
      [] v.t \in {"null", "undefined"} -> NullLiteral
      [] v.t = "array" ->
           <<"[">> \o Join([i \in 1..Len(v.items) |-> Stringify(v.items[i])], <<",">>)
           \o <<"]">>
      [] v.t = "object" ->
           LET idx == SelectSeq([i \in 1..Len(v.keys) |-> i],
                                LAMBDA i : v.vals[i].t # "undefined")
           IN <<"{">>
              \o Join([k \in 1..Len(idx) |->
                          Member(v.keys[idx[k]], Stringify(v.vals[idx[k]]))], <<",">>)
              \o <<"}">>

\* Faulty variant of lines 21-27: the pass-through parameters are spread last.
RequestBodySpreadLast(model, restOfApiParams, messages) ==
    Spread(SetProp(SetProp(SetProp(Obj(<<>>, <<>>), K_model, model),
                           K_messages, messages),
                   K_stream, Bool(TRUE)),
           restOfApiParams, 1)

\* { model, ...restOfApiParams, messages, stream: true }, lines 21-27
RequestBody(model, restOfApiParams, messages) ==
    SetProp(SetProp(Spread(SetProp(Obj(<<>>, <<>>), K_model, model),
                           restOfApiParams, 1),
                    K_messages, messages),
            K_stream, Bool(TRUE))

Bearer == <<"B", "e", "a", "r", "e", "r", " ">>

\* lines 11-29
GetOpenAiRequestOptions(options, messages, signal) ==
    [headers |-> [ContentType |-> "application/json",
                  Authorization |-> Bearer \o JSToString(GetProp(options, K_apiKey))],
     method |-> "POST",
     body |-> Stringify(RequestBody(GetProp(options, K_model), RestOf(options),
                                    messages)),
     signal |-> signal]

\* The arguments of the calls
ApiKeys == {<<"s", "k", "1">>, <<"s", "k", "2">>}
Models == {<<"g", "4">>, <<"g", "3">>}
Msg(r, c) == Obj(<<K_role, K_content>>, <<Str(r), Str(c)>>)
MessageLists ==
    {Arr(<<>>),
     Arr(<<Msg(K_user, <<"H", "i">>)>>),
     Arr(<<Msg(<<"s", "y", "s", "t", "e", "m">>, <<"a", QUOTE, BSL>>),
           Msg(K_user, <<"H", NL, "i">>)>>)}
Signals == {Undefined, [t |-> "signal", id |-> "s1"], [t |-> "signal", id |-> "s2"]}

\* Pass-through parameters: `user` absent, set or undefined; `stream` absent
\* or false; `messages` absent or a list of its own.
PassThrough ==
    {u \o st \o m :
        u \in {<<>>, <<<<K_user, Str(<<"u">>)>>>>, <<<<K_user, Undefined>>>>},
        st \in {<<>>, <<<<K_stream, Bool(FALSE)>>>>},
        m \in {<<>>, <<<<K_messages, Arr(<<Msg(K_user, <<"o", "l", "d">>)>>)>>>>}}

ObjOf(members) ==
    Obj([i \in 1..Len(members) |-> members[i][1]],
        [i \in 1..Len(members) |-> members[i][2]])

\* The options records, with their members in one order or the other
OptionsRecords ==
    {ObjOf(<<<<K_apiKey, Str(k)>>, <<K_model, Str(m)>>>> \o e) :
        k \in ApiKeys, m \in Models, e \in PassThrough}
    \cup {ObjOf(e \o <<<<K_model, Str(m)>>, <<K_apiKey, Str(k)>>>>) :
        k \in ApiKeys, m \in Models, e \in PassThrough}

RequestCalls == [options : OptionsRecords, messages : MessageLists, signal : Signals]

InitRequest ==
    /\ NoSession
    /\ textDecoder = <<>>
    /\ sess = <<>>
    /\ alone = <<>>
    /\ call \in RequestCalls
    /\ request = NoRequest

\* The call returns.
GetRequestOptions ==
    /\ request = NoRequest
    /\ request' = GetOpenAiRequestOptions(call.options, call.messages, call.signal)
    /\ UNCHANGED <<sessionVars, moduleVars, call>>

NextRequest == GetRequestOptions

RequestSpec == InitRequest /\ [][NextRequest]_vars

---------------------------------------------------------------------------
(* What a session is expected to do, read off the script the server sends *)

Seg(j) == Catalog[script[j]]
IsDelta(j) == Seg(j).kind = "delta"

\* The offset in Input at which segment j ends
SegLen == [i \in 1..Len(Catalog) |-> Len(SegBytes[i])]
RECURSIVE EndOf(_, _)
EndOf(sc, j) == IF j = 0 THEN 0 ELSE EndOf(sc, j - 1) + SegLen[sc[j]]

\* The byte source has delivered segment j up to the end of its blank line.
Received(j) == EndOf(script, j) <= pos

\* The number of delta frames among the first j segments
DeltaRank(j) == Cardinality({k \in 1..j : IsDelta(k)})

RECURSIVE DropLeadingWs(_)
DropLeadingWs(t) ==
    IF t # <<>> /\ Head(t) \in Whitespace THEN DropLeadingWs(Tail(t)) ELSE t

\* The content delta of a frame: the empty string when the field is absent,
\* and a leading backtick is not separated from the text after it.
SpecContent(seg) ==
    LET c == IF seg.hasContent THEN seg.c ELSE <<>>
    IN IF c # <<>> /\ Head(c) = TICK THEN <<TICK>> \o DropLeadingWs(Tail(c)) ELSE c

\* The role delta of a frame: the empty string when the field is absent.
SpecRole(seg) == IF seg.hasRole THEN seg.r ELSE <<>>

\* The onIncomingChunk calls the delta frames of a script ask for, in order
ExpectedCalls(sc) ==
    LET deltas == SelectSeq(sc, LAMBDA i : Catalog[i].kind = "delta")
    IN [k \in 1..Len(deltas) |->
           ChunkEv(SpecContent(Catalog[deltas[k]]), Str(SpecRole(Catalog[deltas[k]])))]

ContentsOf(calls) == Flatten([k \in 1..Len(calls) |-> calls[k].c])
RolesOf(calls) == Flatten([k \in 1..Len(calls) |-> JSToString(calls[k].r)])

\* The calls made so far
Calls == SelectSeq(trace, LAMBDA ev : ev.e = "chunk")
Closes == SelectSeq(trace, LAMBDA ev : ev.e = "close")

\* Delta frames only, then the terminal marker
DeltasThenDone(sc) ==
    /\ sc # <<>>
    /\ Catalog[sc[Len(sc)]].kind = "done"
    /\ \A j \in 1..(Len(sc) - 1) : Catalog[sc[j]].kind = "delta"

\* Every segment is a well-formed frame.
WellFormed(sc) == \A j \in 1..Len(sc) : Catalog[sc[j]].kind \in {"delta", "done"}

\* The session in which the whole input arrives as one chunk
OneShot ==
    ProcessChunk([decodedData |-> <<>>, content |-> <<>>, role |-> <<>>,
                  trace |-> <<ReadEv>>, threw |-> ""], Input)

---------------------------------------------------------------------------
(* Claims *)

\* C1: when the input is K well-formed delta frames followed by a [DONE]
\* frame and the source is then exhausted, onIncomingChunk has been called
\* exactly K times, once per frame in frame order with that frame's deltas,
\* and the returned content is the concatenation of the K content deltas.
C1_OneCallPerFrameInOrder ==
    (pc = "closed" /\ DeltasThenDone(script)) =>
        /\ Calls = ExpectedCalls(script)
        /\ result.content = ContentsOf(ExpectedCalls(script))

\* C2: for a well-formed input, however it is cut into chunks, the calls of
\* onIncomingChunk and the returned message are those of the session in
\* which the whole input arrives as a single chunk.
C2_BoundaryInsensitive ==
    (pc = "closed" /\ WellFormed(script)) =>
        /\ Calls = SelectSeq(OneShot.trace, LAMBDA ev : ev.e = "chunk")
        /\ result = Message(OneShot.content, OneShot.role)

\* C3: onCloseStream is called exactly once when the source is exhausted
\* without a fatal error, after the last read and after every onIncomingChunk
\* call, with the timestamp taken before the request, and a message is
\* returned; before that, and in every session that fails (bad status,
\* missing body, malformed payload, read error), it has not been called and
\* no message is returned.
C3_CloseExactlyOnceAndLast ==
    /\ pc = "closed" =>
        /\ Len(Closes) = 1
        /\ trace[Len(trace)] = CloseEv(beforeTimestamp)
        /\ result.returned
        /\ thrownAt = "none" /\ error = NoError
    /\ pc # "closed" => Closes = <<>> /\ ~result.returned
    /\ pc = "failed" <=> thrownAt \in {"fetch", "status", "body", "read", "parse", "shape"}
    /\ (pc = "reading" /\ pos = Len(Input)) => ENABLED ReadDone

\* C3 witness: a session closed after two onIncomingChunk calls.
C3_Witness == pc = "closed" /\ Len(Calls) = 2 /\ Len(Closes) = 1

\* The delta frames received so far
ReceivedDeltas == {j \in 1..Len(script) : IsDelta(j) /\ Received(j)}

IsAscii(t) == \A k \in 1..Len(t) : t[k] # EACUTE

\* The call made for delta frame j carries that frame's deltas (what becomes
\* of a character that is not ASCII is the subject of C10).
CallMatches(j) ==
    /\ DeltaRank(j) <= Len(Calls)
    /\ Calls[DeltaRank(j)].r = Str(SpecRole(Seg(j)))
    /\ IsAscii(Seg(j).c) => Calls[DeltaRank(j)].c = SpecContent(Seg(j))

\* C4: a [DONE] frame is no error, makes no onIncomingChunk call, changes
\* neither accumulator and does not end the session: there is one call per
\* delta frame received, those after a [DONE] frame included, each with its
\* frame's deltas, and the session is closed only once the source is
\* exhausted.
C4_DoneIsSkippedAndLoopContinues ==
    WellFormed(script) =>
        /\ thrownAt \notin {"parse", "shape"}
        /\ pc \in {"reading", "closed"} =>
            /\ Len(Calls) = Cardinality(ReceivedDeltas)
            /\ \A j \in ReceivedDeltas : CallMatches(j)
        /\ pc = "reading" => content = ContentsOf(Calls) /\ role = RolesOf(Calls)
        /\ pc = "closed" =>
            /\ pos = Len(Input)
            /\ ReceivedDeltas = {j \in 1..Len(script) : IsDelta(j)}

\* C4 witness: a delta frame sent after a [DONE] frame has been delivered.
C4_Witness ==
    /\ pc = "closed"
    /\ \E j \in 1..Len(script) : \E d \in 1..Len(script) :
        /\ d < j /\ Seg(d).kind = "done" /\ IsDelta(j)
        /\ Calls[DeltaRank(j)] = ChunkEv(<<"H", "i">>, Str(<<>>))

\* C5: once a frame whose payload is no JSON has been received, the session
\* has failed with the SyntaxError of JSON.parse: the calls made are those
\* of the delta frames before it and none of a frame after it, onCloseStream
\* has not been called and no message is returned.
C5_MalformedPayloadIsFatal ==
    \A j \in 1..Len(script) :
        (Seg(j).kind = "bad" /\ Received(j) /\ thrownAt # "read") =>
            /\ pc = "failed"
            /\ thrownAt = "parse"
            /\ error.name = "SyntaxError"
            /\ Len(Calls) = DeltaRank(j)
            /\ \A k \in 1..j : IsDelta(k) => CallMatches(k)
            /\ trace[Len(trace)].e \in {"read", "chunk"}
            /\ Closes = <<>>
            /\ ~result.returned

\* C5 witness: the session failed on a malformed frame that came after a
\* delivered frame and before another frame.
C5_Witness ==
    /\ pc = "failed" /\ thrownAt = "parse"
    /\ Len(script) = 3 /\ IsDelta(1) /\ Seg(2).kind = "bad" /\ IsDelta(3)
    /\ Len(Calls) = 1

\* C6: a response whose status is outside 200..299 fails the session before
\* the read loop: no read was issued, no callback was invoked, no message is
\* returned, and the error carries the status code and its description.
C6_BadStatusFailsBeforeReading ==
    (response # NoResponse /\ (response.status < 200 \/ response.status > 299)) =>
        /\ pc = "failed"
        /\ thrownAt = "status"
        /\ trace = <<>>
        /\ pos = 0
        /\ ~result.returned
        /\ error.name = "Error"
        /\ error.status = response.status
        /\ error.statusText = StatusText(response.status)

\* C6 witness: a response with status 500 (and a body) was refused.
C6_Witness == response = [status |-> 500, hasBody |-> TRUE] /\ pc = "failed"

\* A delta frame with neither field, or with both fields empty
IsEmptyDelta(seg) ==
    seg.kind = "delta" /\ SpecContent(seg) = <<>> /\ SpecRole(seg) = <<>>

\* C7: a frame whose delta has neither content nor role, or has both empty,
\* is no error and triggers exactly one onIncomingChunk("", "") call.
C7_EmptyDeltaIsDelivered ==
    \A j \in 1..Len(script) :
        (WellFormed(script) /\ IsEmptyDelta(Seg(j)) /\ Received(j) /\ thrownAt # "read") =>
            /\ pc \in {"reading", "closed"}
            /\ Len(Calls) = Cardinality(ReceivedDeltas)
            /\ DeltaRank(j) <= Len(Calls)
            /\ Calls[DeltaRank(j)] = ChunkEv(<<>>, Str(<<>>))

\* C7 witness: a frame whose delta is {} was delivered as ("", "").
C7_Witness ==
    /\ pc = "closed"
    /\ \E j \in 1..Len(script) :
        /\ IsDelta(j) /\ ~Seg(j).hasContent /\ ~Seg(j).hasRole
        /\ Calls[DeltaRank(j)] = ChunkEv(<<>>, Str(<<>>))

\* C8: when the caller's AbortSignal fires and the read rejects for it, the
\* session fails with the AbortError of the read, which no other failure of
\* the session produces (a bad status and a missing body give an Error, a
\* malformed payload a SyntaxError or a TypeError, a network failure a
\* TypeError); onCloseStream is not called and no message is returned.
C8_AbortIsADistinctOutcome ==
    /\ (thrownAt = "read" /\ cause = "abort") =>
        /\ pc = "failed"
        /\ error.name = "AbortError"
        /\ Closes = <<>>
        /\ ~result.returned
    /\ thrownAt \in {"status", "body"} => error.name = "Error"
    /\ thrownAt \in {"parse", "shape"} => error.name \in {"SyntaxError", "TypeError"}
    /\ cause = "network" => error.name = "TypeError"

\* C8 witness: the read rejected for an abort after a delta was delivered.
C8_Witness == thrownAt = "read" /\ cause = "abort" /\ Len(Calls) = 1

C10_SplitCharacterIsDecoded ==
    (pc = "reading" /\ WellFormed(script)
        /\ (pos = 0 \/ Input[pos] \notin LeadBytes)) =>
        LET lines == Split(Decode(SubSeq(Input, 1, pos)))
        IN decodedData = lines[Len(lines)]

\* The script ends with text that no blank line follows, after frames that
\* are all well-formed.
EndsUnterminated(sc) ==
    /\ sc # <<>>
    /\ Catalog[sc[Len(sc)]].kind \in {"tail", "badtail"}
    /\ WellFormed(SubSeq(sc, 1, Len(sc) - 1))

\* C11: text left in the buffer when the source is exhausted, never followed
\* by a blank line, is dropped: it is not parsed, gives no onIncomingChunk
\* call, adds nothing to the message and does not fail the session, be it a
\* truncated payload or a whole `data: <json>` payload; onCloseStream is
\* called once and the message of the earlier frames is returned.
C11_TrailingTextIsDropped ==
    EndsUnterminated(script) =>
        LET earlier == SubSeq(script, 1, Len(script) - 1)
        IN /\ thrownAt \notin {"parse", "shape"}
           /\ (pc = "reading" /\ pos = Len(Input)) =>
                /\ decodedData = SegText(Seg(Len(script)))
                /\ Calls = ExpectedCalls(earlier)
                /\ ENABLED ReadDone
           /\ pc = "closed" =>
                /\ Calls = ExpectedCalls(earlier)
                /\ result = Message(ContentsOf(ExpectedCalls(earlier)), <<>>)
                /\ Len(Closes) = 1
                /\ trace[Len(trace)].e = "close"

\* C11 witness: a session closed with one call and the message "Hi" although
\* a whole `data: <json>` payload with content "X" came after the frame.
C11_Witness ==
    /\ pc = "closed"
    /\ Len(script) = 2 /\ IsDelta(1) /\ Seg(2).kind = "tail"
    /\ Len(Calls) = 1
    /\ result = Message(<<"H", "i">>, <<>>)

CallsOf(rec) == SelectSeq(rec.trace, LAMBDA ev : ev.e = "chunk")

\* C12: two sessions whose reads interleave share no mutable state: each
\* session's onIncomingChunk calls, onCloseStream call and returned message
\* or error are those of the same session run alone on the same chunks,
\* whatever the other session receives, also when the other session fails;
\* the module's decoder is never changed.
C12_SessionsAreIndependent ==
    /\ textDecoder = <<>>
    /\ \A s \in DOMAIN sess :
        /\ sess[s].trace = alone[s].session.trace
        /\ sess[s].result = alone[s].session.result
        /\ sess[s].error = alone[s].session.error
        /\ sess[s].pc = alone[s].session.pc
        /\ sess[s].decodedData = alone[s].session.decodedData
        /\ sess[s].pc = "closed" =>
            sess[s].trace[Len(sess[s].trace)] = CloseEv(StartTime(s))

\* C12 witness: session 2 has failed on a truncated payload and session 1,
\* whose two-byte character came in two chunks, has closed with its one call.
C12_Witness ==
    /\ DOMAIN sess = Sessions
    /\ sess[2].pc = "failed" /\ sess[2].error.name = "SyntaxError"
    /\ sess[1].pc = "closed" /\ Len(CallsOf(sess[1])) = 1
    /\ sess[1].result.content = <<TICK, REPLACEMENT, REPLACEMENT>>

\* t occurs in s
Contains(s, t) == \E p \in 1..Len(s) : HasPrefixAt(s, p, t)

\* C13: getOpenAiRequestOptions returns a POST descriptor whose body is JSON
\* for an object with the given model, every pass-through parameter,
\* `messages` equal to the given list and `stream` equal to true, also when
\* the pass-through parameters have a `stream` or a `messages` of their own;
\* the API key is in the bearer Authorization header and nowhere in the
\* body, and the signal is the one given.
C13_RequestOptions ==
    request # NoRequest =>
        LET parsed == JSONParse(request.body)
            o == call.options
            apiKey == GetProp(o, K_apiKey).s
        IN /\ request.method = "POST"
           /\ request.headers.ContentType = "application/json"
           /\ request.headers.Authorization = Bearer \o apiKey
           /\ request.signal = call.signal
           /\ parsed.ok /\ parsed.v.t = "object"
           /\ \A i, j \in 1..Len(parsed.v.keys) :
                parsed.v.keys[i] = parsed.v.keys[j] => i = j
           /\ GetProp(parsed.v, K_model) = GetProp(o, K_model)
           /\ \A i \in 1..Len(o.keys) :
                o.keys[i] \notin {K_apiKey, K_model, K_messages, K_stream} =>
                    GetProp(parsed.v, o.keys[i]) = o.vals[i]
           /\ GetProp(parsed.v, K_messages) = call.messages
           /\ GetProp(parsed.v, K_stream) = Bool(TRUE)
           /\ GetProp(parsed.v, K_apiKey) = Undefined
           /\ ~Contains(request.body, apiKey)

\* C13 witness: the options had `stream: false`, a `messages` of their own
\* and `user`; the body has `stream: true`, the two given messages and `user`.
C13_Witness ==
    /\ request # NoRequest
    /\ GetProp(call.options, K_stream) = Bool(FALSE)
    /\ GetProp(call.options, K_messages) # Undefined
    /\ GetProp(call.options, K_user) = Str(<<"u">>)
    /\ Len(call.messages.items) = 2
    /\ call.signal # Undefined
    /\ GetProp(JSONParse(request.body).v, K_stream) = Bool(TRUE)
    /\ GetProp(JSONParse(request.body).v, K_user) = Str(<<"u">>)
    /\ GetProp(JSONParse(request.body).v, K_messages) = call.messages

\* The script has well-formed frames and one newline more before one of them:
\* three newlines between two events, or one before the first.
StrayNewlineBeforeFrame(sc) ==
    \E j \in 1..(Len(sc) - 1) :
        /\ Catalog[sc[j]].kind = "nl"
        /\ WellFormed(SubSeq(sc, 1, j - 1) \o SubSeq(sc, j + 1, Len(sc)))

\* C14: a frame "\ndata: X" is handled like the frame "data: X": the marker
\* and the newline before it are stripped, X is skipped when it is [DONE] and
\* otherwise parsed and delivered, so the session does not fail and makes the
\* calls of its delta frames.
C14_StrayNewlineIsStripped ==
    StrayNewlineBeforeFrame(script) =>
        /\ thrownAt \notin {"parse", "shape"}
        /\ pc = "closed" =>
            /\ Calls = ExpectedCalls(script)
            /\ result.content = ContentsOf(ExpectedCalls(script))

\* The session in which all the text received so far came as one chunk
InOnePass ==
    ProcessDecoded([decodedData |-> <<>>, content |-> <<>>, role |-> <<>>,
                    trace |-> <<ReadEv>>, threw |-> ""], received)

\* C15: whenever a read is about to be issued, the buffer has no event
\* boundary in it and is the text received after the last event boundary:
\* every frame whose boundary was received has been classified, and
\* delivered if it is a delta frame, and no text was lost or taken twice
\* between the passes.
C15_BufferIsTheUnframedRest ==
    pc = "reading" =>
        /\ MatchesFrom(decodedData, 1) = {}
        /\ \E k \in 1..(Len(received) + 1) :
            /\ decodedData = SubSeq(received, k, Len(received))
            /\ k = 1 \/ (k > 2 /\ received[k - 2] = NL /\ received[k - 1] = NL)
        /\ LET lines == Split(received)
           IN decodedData = lines[Len(lines)]
        /\ LET whole == InOnePass
           IN /\ decodedData = whole.decodedData
              /\ whole.threw = ""
              /\ Calls = SelectSeq(whole.trace, LAMBDA ev : ev.e = "chunk")
              /\ content = whole.content
              /\ role = whole.role

\* C15 witness: two frames were delivered in several passes, and the buffer
\* holds the beginning of a third.
C15_Witness ==
    /\ pc = "reading"
    /\ Len(Calls) = 2
    /\ Len(Split(received)) = 5
    /\ decodedData = <<"d", "a", "t", "a", ":", " ", "{">>
    /\ trace[Len(trace)].e = "read"

\* A content delta as the claim has it passed on: without the whitespace
\* after a backtick that is its first character, and else as it is.
Normalized(c) ==
    IF Len(c) >= 2 /\ c[1] = TICK /\ c[2] \in Whitespace
    THEN <<TICK>> \o DropLeadingWs(Tail(c))
    ELSE c

\* The text with each two-byte character as two replacement characters
Garbled(c) ==
    Flatten([i \in 1..Len(c) |->
        IF c[i] = EACUTE THEN <<REPLACEMENT, REPLACEMENT>> ELSE <<c[i]>>])

\* C16: the backtick normalization is applied to the content delta only,
\* before it is accumulated and delivered: a content delta that starts with
\* a backtick and whitespace is passed to onIncomingChunk and appended
\* without that whitespace; every other content delta, one with the
\* backtick elsewhere included, and every role delta is passed and
\* appended as it is.
C16_BacktickNormalization ==
    (WellFormed(script) /\ pc \in {"reading", "closed"}) =>
        /\ Len(Calls) = Cardinality(ReceivedDeltas)
        /\ \A j \in ReceivedDeltas :
            LET given == IF Seg(j).hasContent THEN Seg(j).c ELSE <<>>
                passed == Calls[DeltaRank(j)]
            IN /\ passed.c \in {Normalized(given), Normalized(Garbled(given))}
               /\ passed.r = Str(IF Seg(j).hasRole THEN Seg(j).r ELSE <<>>)
        /\ pc = "reading" => content = ContentsOf(Calls) /\ role = RolesOf(Calls)
        /\ pc = "closed" => result = Message(ContentsOf(Calls), RolesOf(Calls))

\* C16 witness: the deltas content "` \nx", role "` r" were passed on as
\* ("`x", "` r") and make the returned message.
C16_Witness ==
    /\ pc = "closed"
    /\ Calls = <<ChunkEv(<<TICK, "x">>, Str(<<TICK, " ", "r">>))>>
    /\ result = Message(<<TICK, "x">>, <<TICK, " ", "r">>)

\* C17: a response with a success status and no readable body fails the
\* session with the "no body" error before any read, and neither callback is
\* invoked; a response with a status outside 200..299 and no body fails with
\* the error of the status, which carries the status.
C17_NoBodyFailsBeforeReading ==
    (response # NoResponse /\ ~response.hasBody) =>
        /\ pc = "failed"
        /\ trace = <<>>
        /\ pos = 0
        /\ ~result.returned
        /\ error.name = "Error"
        /\ IF response.status >= 200 /\ response.status <= 299
           THEN /\ thrownAt = "body"
                /\ error.msg = "No body included in POST response object"
                /\ error.status = 0
           ELSE /\ thrownAt = "status"
                /\ error.msg = "Network response was not ok: "
                /\ error.status = response.status
                /\ error.statusText = StatusText(response.status)

\* C17 witness: a response with status 200 and no body was refused.
C17_Witness ==
    /\ response = [status |-> 200, hasBody |-> FALSE]
    /\ pc = "failed" /\ thrownAt = "body"
    /\ error = Err("Error", "No body included in POST response object")

\* Frames that carry nothing, and the newline that makes a run of three
KeepAliveKinds == {"empty", "blank", "bare", "nl"}

\* Well-formed frames with keep-alive frames and longer runs of newlines
\* between or after them
Padded(sc) ==
    /\ \A j \in 1..Len(sc) :
        Catalog[sc[j]].kind \in {"delta", "done"} \cup KeepAliveKinds
    /\ \A j \in 1..Len(sc) : Catalog[sc[j]].kind = "nl" => j > 1

\* C18: a segment of a split pass whose stripped and trimmed text is empty
\* is a no-op, with no call, no change of an accumulator and no error: so
\* are keep-alive frames (empty, of whitespace, a bare `data:`), runs of
\* more than two newlines and the newline elements the split puts between
\* frames; the number of onIncomingChunk calls is the number of delta
\* frames.
C18_EmptySegmentsAreNoOps ==
    Padded(script) =>
        /\ thrownAt \notin {"parse", "shape"}
        /\ pc \in {"reading", "closed"} =>
            /\ Len(Calls) = Cardinality(ReceivedDeltas)
            /\ \A j \in ReceivedDeltas : CallMatches(j)
        /\ pc = "reading" => content = ContentsOf(Calls) /\ role = RolesOf(Calls)
        /\ pc = "closed" => Len(Calls) = Len(ExpectedCalls(script))

\* Every complete frame of the script is a delta frame, the terminal marker
\* or a keep-alive frame; text that no blank line follows may come last.
FramesWellFormed(sc) ==
    \A j \in 1..Len(sc) :
        \/ Catalog[sc[j]].kind \in {"delta", "done", "empty", "blank", "bare"}
        \/ j = Len(sc) /\ Catalog[sc[j]].kind \in {"tail", "badtail", "nl"}

\* C19: with a byte source that delivers and then reports exhaustion, and
\* frames that are all well-formed, a session that reads is eventually
\* CLOSED (onCloseStream called, a message returned) unless a read fails;
\* the session becomes CLOSED only by the read that reports exhaustion, so
\* never without it, and after CLOSED or FAILED no read is issued.
C19_ClosesOnExhaustionOnly ==
    /\ (pc = "reading" /\ FramesWellFormed(script))
            ~> ((pc = "closed" /\ result.returned /\ Len(Closes) = 1)
                    \/ thrownAt = "read")
    /\ [][pc' = "closed" =>
            (pc = "closed" \/ (pc = "reading" /\ pos = Len(Input) /\ pos' = pos))]_vars
    /\ [][pc' # "reading" =>
            (pc # "reading" \/ pc' = "closed" \/ thrownAt' \in {"read", "parse", "shape"})]_vars
    /\ [][(pc = "closed" \/ pc = "failed") =>
            (pc' = pc /\ pos' = pos /\ trace' = trace)]_vars

\* C19 witness: a session of a keep-alive frame and a delta frame is CLOSED.
C19_Witness ==
    /\ pc = "closed" /\ result.returned
    /\ FramesWellFormed(script) /\ script = <<14, 1>>
    /\ Len(Calls) = 1

\* Payloads that are JSON of another shape than a chunk
WrongShapeKinds == {"nochoices", "emptychoices", "nodelta", "nulldelta"}

=============================================================================
